---- MODULE Spec2Model ----
(***************************************************************************)
(* Model of the ALDI price scraper of grocery-price-tracker:               *)
(*   src/scrapers/aldi_scraper.py  find_best_aldi_match, scrape_aldi_search,*)
(*                                 run_aldi_scraper                         *)
(*   src/data/sheets_manager.py    SheetsManager.update_price, _norm,       *)
(*                                 _get_header_map, get_data                *)
(*                                                                         *)
(* Python strings are modelled as sequences of one-character strings, so   *)
(* that lower(), strip(), replace(), substring search and the size regex   *)
(* are computed character by character.  Python floats are modelled as     *)
(* exact decimal fractions [n, d] (value n/d, d a power of ten).           *)
(***************************************************************************)
EXTENDS Integers, Sequences, FiniteSets, TLC

(***************************************************************************)
(* Characters and strings                                                  *)
(***************************************************************************)
UpperLetters ==
    <<"A","B","C","D","E","F","G","H","I","J","K","L","M",
      "N","O","P","Q","R","S","T","U","V","W","X","Y","Z">>

LowerLetters ==
    <<"a","b","c","d","e","f","g","h","i","j","k","l","m",
      "n","o","p","q","r","s","t","u","v","w","x","y","z">>

DigitVal ==
    ("0" :> 0) @@ ("1" :> 1) @@ ("2" :> 2) @@ ("3" :> 3) @@ ("4" :> 4) @@
    ("5" :> 5) @@ ("6" :> 6) @@ ("7" :> 7) @@ ("8" :> 8) @@ ("9" :> 9)

IsDigit(c) == c \in DOMAIN DigitVal

\* str.lower() on one character
LowerChar(c) ==
    IF \E k \in 1..26 : UpperLetters[k] = c
    THEN LowerLetters[CHOOSE k \in 1..26 : UpperLetters[k] = c]
    ELSE c

\* str.lower()
lower(s) == [k \in 1..Len(s) |-> LowerChar(s[k])]

\* Python's `needle in hay` on strings
Contains(needle, hay) ==
    \E k \in 0..(Len(hay) - Len(needle)) : \A j \in 1..Len(needle) : hay[k + j] = needle[j]

\* str.strip(chars): the longest prefix and suffix made of `chars` removed
RECURSIVE LStrip(_, _)
LStrip(s, chars) ==
    IF s # <<>> /\ Head(s) \in chars THEN LStrip(Tail(s), chars) ELSE s

RECURSIVE RStrip(_, _)
RStrip(s, chars) ==
    IF s # <<>> /\ s[Len(s)] \in chars THEN RStrip(SubSeq(s, 1, Len(s) - 1), chars) ELSE s

strip(s, chars) == RStrip(LStrip(s, chars), chars)

\* str.replace(c, '') for a one-character c
RECURSIVE Remove(_, _)
Remove(s, c) ==
    IF s = <<>> THEN <<>>
    ELSE IF Head(s) = c THEN Remove(Tail(s), c)
    ELSE <<Head(s)>> \o Remove(Tail(s), c)

\* str.isdigit(): non-empty and every character a digit
isdigit(s) == s # <<>> /\ \A k \in 1..Len(s) : IsDigit(s[k])

CountChar(s, c) == Cardinality({k \in 1..Len(s) : s[k] = c})

(***************************************************************************)
(* Decimal numbers                                                         *)
(***************************************************************************)
RECURSIVE Pow10(_)
Pow10(k) == IF k = 0 THEN 1 ELSE 10 * Pow10(k - 1)

\* the value of the digit string s, most significant digit first
RECURSIVE DigitsValue(_, _)
DigitsValue(s, acc) ==
    IF s = <<>> THEN acc ELSE DigitsValue(Tail(s), acc * 10 + DigitVal[Head(s)])

RECURSIVE Normalize(_)
Normalize(q) ==
    IF q.d > 1 /\ q.n % 10 = 0 THEN Normalize([n |-> q.n \div 10, d |-> q.d \div 10]) ELSE q

\* float(s) for a string of digits with at most one '.', at least one digit
float(s) ==
    LET dots == {k \in 1..Len(s) : s[k] = "."}
        p    == IF dots = {} THEN Len(s) + 1 ELSE CHOOSE k \in dots : TRUE
        ip   == SubSeq(s, 1, p - 1)
        fp   == SubSeq(s, p + 1, Len(s))
    IN Normalize([n |-> DigitsValue(ip, 0) * Pow10(Len(fp)) + DigitsValue(fp, 0),
                  d |-> Pow10(Len(fp))])

\* float('inf')
Inf == [n |-> 1, d |-> 0]

\* a < b on fractions with non-negative numerators
Less(a, b) == a.n * b.d < b.n * a.d

Abs(x) == IF x < 0 THEN -x ELSE x

\* abs(q - t) for a fraction q and an integer t
AbsDiff(q, t) == [n |-> Abs(q.n - t * q.d), d |-> q.d]

\* cell values of the sheet: a number or a string
Num(v) == [t |-> "num", v |-> v]

Str(s) == [t |-> "str", s |-> s]

\* string literals of the source
S_HomeBrand == <<"H","o","m","e"," ","B","r","a","n","d">>

S_Specific == <<"S","p","e","c","i","f","i","c">>

S_Aldi == <<"A","l","d","i">>

Product_Name == <<"P","r","o","d","u","c","t","_","N","a","m","e">>

Search_Keyword_Aldi ==
    <<"S","e","a","r","c","h","_","K","e","y","w","o","r","d","_","A","l","d","i">>

Size == <<"S","i","z","e">>

Brand_Type == <<"B","r","a","n","d","_","T","y","p","e">>

Category == <<"C","a","t","e","g","o","r","y">>

Woolworths_Price == <<"W","o","o","l","w","o","r","t","h","s","_","P","r","i","c","e">>

Coles_Price == <<"C","o","l","e","s","_","P","r","i","c","e">>

Aldi_Price == <<"A","l","d","i","_","P","r","i","c","e">>

Last_Updated == <<"L","a","s","t","_","U","p","d","a","t","e","d">>

(***************************************************************************)
(* find_best_aldi_match                                                    *)
(***************************************************************************)
ALDI_HOME_BRANDS ==
    << <<"c","h","o","c","e","u","r">>,
       <<"w","e","s","t","a","c","r","e">>,
       <<"b","l","a","c","k","s","t","o","n","e">>,
       <<"m","a","m","i","a">>,
       <<"b","a","k","e","r","s"," ","l","i","f","e">>,
       <<"f","a","r","m","d","a","l","e">>,
       <<"r","e","m","a","n","o">>,
       <<"d","a","i","r","y"," ","f","i","n","e">>,
       <<"l","o","g","i","x">>,
       <<"t","r","i","m","a","t">>,
       <<"c","o","w","b","e","l","l","e">>,
       <<"e","m","p","o","r","i","u","m"," ","s","e","l","e","c","t","i","o","n">>,
       <<"b","r","o","o","k","l","e","a">>,
       <<"y","o","g","u","r","i">>,
       <<"b","r","a","m","w","e","l","l","s">>,
       <<"g","o","l","d","e","n","v","a","l","e">>,
       <<"i","m","p","e","r","i","a","l"," ","g","r","a","i","n">>,
       <<"a","s","i","a"," ","g","r","e","e","n"," ","g","a","r","d","e","n">>,
       <<"s","p","r","i","n","t","e","r","s">>,
       <<"b","e","l","m","o","n","t">>,
       <<"k","n","o","p","p","e","r","s">>,
       <<"n","u","t","o","k","a">>,
       <<"b","r","o","a","d"," ","o","a","k"," ","f","r","a","m","s">>,
       <<"b","e","r","g">>,
       <<"i","r","o","n","b","a","r","k">>,
       <<"o","c","e","a","n"," ","r","i","s","e">>,
       <<"t","a","n","d","i","l">>,
       <<"d","i","-","s","a","n">>,
       <<"p","o","w","e","r"," ","f","o","r","c","e">>,
       <<"c","o","n","f","i","d","e","n","c","e">>,
       <<"j","u","s","t"," ","o","r","g","a","n","i","c">> >>

\* the end of the run of digits that starts at position k
RECURSIVE DigitRunEnd(_, _)
DigitRunEnd(s, k) ==
    IF k < Len(s) /\ IsDigit(s[k + 1]) THEN DigitRunEnd(s, k + 1) ELSE k

\* re.findall(r'(\d+(?:\.\d+)?)', s): its first element, <<>> when the list is empty
first_size_token(s) ==
    IF \A k \in 1..Len(s) : ~IsDigit(s[k]) THEN <<>>
    ELSE LET a == CHOOSE k \in 1..Len(s) :
                     IsDigit(s[k]) /\ \A j \in 1..(k - 1) : ~IsDigit(s[j])
             b == DigitRunEnd(s, a)
             c == IF b + 2 <= Len(s) /\ s[b + 1] = "." /\ IsDigit(s[b + 2])
                  THEN DigitRunEnd(s, b + 2)
                  ELSE b
         IN SubSeq(s, a, c)

\* brand.lower() for brand in ALDI_HOME_BRANDS
home_brands_lower == [k \in 1..Len(ALDI_HOME_BRANDS) |-> lower(ALDI_HOME_BRANDS[k])]

\* any(brand.lower() in title_lower for brand in ALDI_HOME_BRANDS)
has_home_brand(title_lower) ==
    \E k \in 1..Len(home_brands_lower) : Contains(home_brands_lower[k], title_lower)

\* the brand filter with its `not` lost
brand_rejects_inverted(brand_type, title_lower) ==
    brand_type = Str(S_HomeBrand) /\ has_home_brand(title_lower)

\* the brand filter never applied
brand_rejects_never(brand_type, title_lower) == FALSE

\* the condition of `continue` at the brand filter
brand_rejects(brand_type, title_lower) ==
    brand_type = Str(S_HomeBrand) /\ ~has_home_brand(title_lower)

\* `if diff <= min_diff`: the last of equal candidates wins
improves_or_equal(diff, min_diff) == ~Less(min_diff, diff)

\* `if diff < min_diff`
improves(diff, min_diff) == Less(diff, min_diff)

\* The loop of find_best_aldi_match from candidate k on.  best_match is the
\* position in `results` of the candidate held in best_match (0 for None).
\* The result is [raised, best]: raised when abs(res_size - target_size)
\* raises TypeError because target_size is not a number.
RECURSIVE match_loop(_, _, _, _, _, _)
match_loop(results, target_size, brand_type, k, best_match, min_diff) ==
    IF k > Len(results) THEN [raised |-> FALSE, best |-> best_match]
    ELSE LET res         == results[k]
             sizes       == first_size_token(lower(res.title))
             title_lower == lower(res.title)
             skip        == match_loop(results, target_size, brand_type, k + 1,
                                       best_match, min_diff)
         IN IF sizes = <<>> THEN skip
            ELSE IF brand_rejects(brand_type, title_lower) THEN skip
            ELSE IF target_size.t # "num" THEN [raised |-> TRUE, best |-> 0]
            ELSE LET diff == AbsDiff(float(sizes), target_size.v)
                 IN IF improves(diff, min_diff)
                    THEN match_loop(results, target_size, brand_type, k + 1, k, diff)
                    ELSE skip

find_best_aldi_match(results, target_size, brand_type) ==
    match_loop(results, target_size, brand_type, 1, 0, Inf)

(***************************************************************************)
(* scrape_aldi_search                                                      *)
(***************************************************************************)
\* elems[:5]
TopTiles == 5

Zero == [n |-> 0, d |-> 1]

\* One product tile: the text of its .product-name and .price elements
\* ("" when the element is missing).  The result is [raised, product]:
\* raised when float(price_clean) raises ValueError, which the loop catches
\* and answers by dropping the tile.
parse_tile(tile) ==
    LET price_clean == Remove(strip(tile.price_str, {"$"}), ",")
    IN IF isdigit(Remove(price_clean, "."))
       THEN IF CountChar(price_clean, ".") <= 1
            THEN [raised |-> FALSE,
                  product |-> [title |-> tile.title, price |-> float(price_clean)]]
            ELSE [raised |-> TRUE, product |-> <<>>]
       ELSE [raised |-> FALSE, product |-> [title |-> tile.title, price |-> Zero]]

RECURSIVE parse_tiles(_)
parse_tiles(elems) ==
    IF elems = <<>> THEN <<>>
    ELSE LET r == parse_tile(Head(elems))
         IN (IF r.raised THEN <<>> ELSE <<r.product>>) \o parse_tiles(Tail(elems))

\* page.status: "load_error" when page.goto or wait_for_selector raises,
\* "query_error" when query_selector_all raises, "ok" otherwise.
\* The result is [raised, products].
scrape_aldi_search(page) ==
    IF page.status = "load_error" THEN [raised |-> FALSE, products |-> <<>>]
    ELSE IF page.status = "query_error" THEN [raised |-> TRUE, products |-> <<>>]
    ELSE [raised |-> FALSE,
          products |-> parse_tiles(SubSeq(page.tiles, 1, IF Len(page.tiles) < TopTiles
                                                         THEN Len(page.tiles)
                                                         ELSE TopTiles))]

(***************************************************************************)
(* SheetsManager                                                           *)
(***************************************************************************)
Whitespace == {" ", "\t", "\n"}

\* SheetsManager._norm
norm(s) == lower(strip(s, Whitespace))

\* cell values written by update_price
Price(q) == [t |-> "float", q |-> q]

Time(now) == [t |-> "time", v |-> now]

\* the text of a string cell
CellText(cell) == cell.s

\* _get_header_map(ws).get(_norm(name)): the 1-based column, 0 for None.
\* The dict comprehension keeps the last column of a repeated header.
header_col(header, name) ==
    LET hits == {c \in 1..Len(header) : norm(header[c]) = norm(name)}
    IN IF hits = {} THEN 0 ELSE CHOOSE c \in hits : \A c2 \in hits : c2 <= c

store_to_colname ==
    (<<"w","o","o","l","w","o","r","t","h","s">> :> Woolworths_Price) @@
    (<<"c","o","l","e","s">> :> Coles_Price) @@
    (<<"a","l","d","i">> :> Aldi_Price)

\* the row scan falling back on the first data row when no name matches
find_target_row_or_first(rows, product_col, product_name) ==
    LET hits == {k \in 1..Len(rows) :
                    norm(CellText(rows[k][product_col])) = norm(product_name)}
    IN IF hits = {} THEN (IF rows = <<>> THEN 0 ELSE 1)
       ELSE CHOOSE k \in hits : \A k2 \in hits : k <= k2

\* the row scan of update_price: the first data row whose normalised
\* Product_Name equals the normalised argument, 0 for None
find_target_row(rows, product_col, product_name) ==
    LET hits == {k \in 1..Len(rows) :
                    norm(CellText(rows[k][product_col])) = norm(product_name)}
    IN IF hits = {} THEN 0 ELSE CHOOSE k \in hits : \A k2 \in hits : k <= k2

\* ws.update([price cell, timestamp cell], [[new_price], [now]])
\* the batch with its two ranges exchanged: the time in the price cell
write_cells_swapped(sheet, target_row, price_col, last_updated_col, new_price, now) ==
    [sheet EXCEPT !.rows[target_row] =
        [c \in 1..Len(sheet.header) |->
            IF c = last_updated_col THEN Price(new_price)
            ELSE IF c = price_col THEN Time(now)
            ELSE @[c]]]

\* an update of the price cell alone
write_cells_price_only(sheet, target_row, price_col, last_updated_col, new_price, now) ==
    [sheet EXCEPT !.rows[target_row] =
        [c \in 1..Len(sheet.header) |-> IF c = price_col THEN Price(new_price) ELSE @[c]]]

write_cells(sheet, target_row, price_col, last_updated_col, new_price, now) ==
    [sheet EXCEPT !.rows[target_row] =
        [c \in 1..Len(sheet.header) |->
            IF c = last_updated_col THEN Time(now)
            ELSE IF c = price_col THEN Price(new_price)
            ELSE @[c]]]

Raise(sheet, e) == [raised |-> TRUE, error |-> e, sheet |-> sheet]

\* SheetsManager.update_price.  api_ok is FALSE when a Google Sheets call
\* (opening the worksheet, reading, ws.update) fails.  The result is
\* [raised, error, sheet].
update_price(sheet, product_name, store_name, new_price, now, api_ok) ==
    LET header           == sheet.header
        product_col      == header_col(header, Product_Name)
        last_updated_col == header_col(header, Last_Updated)
        store_key        == norm(store_name)
    IN IF ~api_ok THEN Raise(sheet, "RuntimeError")
       ELSE IF header = <<>> THEN Raise(sheet, "RuntimeError")
       ELSE IF product_col = 0 THEN Raise(sheet, "ValueError")
       ELSE IF last_updated_col = 0 THEN Raise(sheet, "ValueError")
       ELSE IF store_key \notin DOMAIN store_to_colname THEN Raise(sheet, "ValueError")
       ELSE LET price_col  == header_col(header, store_to_colname[store_key])
                target_row == find_target_row(sheet.rows, product_col, product_name)
            IN IF price_col = 0 THEN Raise(sheet, "ValueError")
               ELSE IF target_row = 0 THEN Raise(sheet, "ValueError")
               ELSE [raised |-> FALSE, error |-> "",
                     sheet  |-> write_cells(sheet, target_row, price_col,
                                            last_updated_col, new_price, now)]

\* ws.get_all_records(): one dict per data row, keyed by the header cells
get_all_records(sheet) ==
    [k \in 1..Len(sheet.rows) |->
        [h \in {sheet.header[c] : c \in 1..Len(sheet.header)} |->
            sheet.rows[k][CHOOSE c \in 1..Len(sheet.header) : sheet.header[c] = h]]]

(***************************************************************************)
(* Inputs: sheets and search pages                                         *)
(***************************************************************************)
\* the longest catalog
MaxCatalog == 2

AllLabels ==
    {Product_Name, Search_Keyword_Aldi, Size, Brand_Type, Category,
     Woolworths_Price, Coles_Price, Aldi_Price, Last_Updated}

Blank == Str(<<>>)

MkRow(name, keyword, size, brand) ==
    [h \in AllLabels |->
        CASE h = Product_Name        -> Str(name)
          [] h = Search_Keyword_Aldi -> Str(keyword)
          [] h = Size                -> size
          [] h = Brand_Type          -> Str(brand)
          [] h = Last_Updated        -> Time(0)
          [] OTHER                   -> Blank]

\* the kinds of catalog row: a home-brand product, a product without a
\* search keyword, a product whose Size cell is blank, a specific-brand product
RowKinds ==
    { MkRow(<<"M","i","l","k">>, <<"m","i","l","k">>, Num(2), S_HomeBrand),
      MkRow(<<"C","h","o","c">>, <<>>, Num(500), S_Specific),
      MkRow(<<"C","o","l","a">>, <<"c","o","l","a">>, Blank, S_Specific),
      MkRow(<<"N","u","t","s">>, <<"n","u","t","s">>, Num(500), S_Specific) }

\* the header the scraper reads, the header app.py documents ("Expected sheet
\* structure", without the scraper's columns), and a header without Aldi_Price
FullHeader ==
    <<Product_Name, Search_Keyword_Aldi, Size, Brand_Type,
      Woolworths_Price, Coles_Price, Aldi_Price, Last_Updated>>

DocHeader ==
    <<Product_Name, Category, Size, Woolworths_Price, Coles_Price, Aldi_Price, Last_Updated>>

NoAldiHeader ==
    <<Product_Name, Search_Keyword_Aldi, Size, Brand_Type,
      Woolworths_Price, Coles_Price, Last_Updated>>

Headers == {FullHeader, DocHeader, NoAldiHeader}

\* catalogs: up to MaxCatalog rows with pairwise different product names
Catalogs ==
    {ks \in UNION {[1..n -> RowKinds] : n \in 0..MaxCatalog} :
        \A a, b \in DOMAIN ks : a # b => ks[a] # ks[b]}

MkSheet(header, ks) ==
    [header |-> header,
     rows   |-> [k \in 1..Len(ks) |-> [c \in 1..Len(header) |-> ks[k][header[c]]]]]

Sheets == {MkSheet(h, ks) : h \in Headers, ks \in Catalogs}

Tile(title, price_str) == [title |-> title, price_str |-> price_str]

TileFarmdale ==
    Tile(<<"F","a","r","m","d","a","l","e"," ","M","i","l","k"," ","2","L">>,
         <<"$","3",".","2","0">>)

TileBrandX ==
    Tile(<<"B","r","a","n","d"," ","X"," ","M","i","l","k"," ","1","L">>,
         <<"2",".","1","0">>)

\* a multi-pack title of a home brand whose price element is missing
TileBerg ==
    Tile(<<"2"," ","x"," ","5","0","0","g"," ","B","E","R","G"," ","n","u","t","s">>, <<>>)

\* a title without a number
TileBar == Tile(<<"C","h","o","c","e","u","r"," ","B","a","r">>, <<"$","1",".","0","0">>)

\* a price text that passes the isdigit test and that float() rejects
TileBadPrice == Tile(<<"M","i","l","k"," ","3","L">>, <<"1",".","2",".","3">>)

Page(status, tiles) == [status |-> status, tiles |-> tiles]

\* what a search may meet: a page that fails to load, a page whose tiles
\* cannot be queried, and pages of product tiles
Pages ==
    { Page("load_error", <<>>),
      Page("query_error", <<>>),
      Page("ok", <<TileFarmdale, TileBrandX>>),
      Page("ok", <<TileBrandX>>),
      Page("ok", <<TileBerg, TileFarmdale>>),
      Page("ok", <<TileBadPrice>>),
      Page("ok", <<TileBar, TileBar, TileBar, TileBar, TileBadPrice, TileFarmdale>>) }

(***************************************************************************)
(* run_aldi_scraper                                                        *)
(***************************************************************************)
VARIABLES
    sheet,            \* the Products_Master worksheet: [header, rows]
    pc,               \* where run_aldi_scraper is
    products_master,  \* the catalog read at the start of the pass
    i,                \* the position of the current entry (1-based), 0 before the loop
    results,          \* the search results of the current entry
    best,             \* the position in results of the match of the current entry
    processed_count,
    updated_count,
    log,              \* the outcome printed for each entry: <<entry, message>>
    hist,             \* history: the calls made for each entry started
    clock,            \* the time _now_iso_utc() returns next
    escaped,          \* the exception that left run_aldi_scraper, "" when none
    web,              \* the page each keyword searched so far was answered with
    pass,             \* the number of the pass that is running
    first,            \* history: hist and sheet at the end of the first pass
    call              \* history: the last direct call of update_price

vars ==
    <<sheet, pc, products_master, i, results, best, processed_count, updated_count,
      log, hist, clock, escaped, web, pass, first, call>>

\* what one pass of the scraper on its own leaves alone
others == <<web, pass, first, call>>

\* no search answered yet, the first pass, no direct call of update_price
Idle ==
    /\ web = {}
    /\ pass = 1
    /\ first = <<>>
    /\ call = <<>>

\* the keyword test lost: every keyword is searched
Truthy_always(cell) == TRUE

\* the keyword test as `if keyword is None`: only a number can fail it
Truthy_nonzero(cell) == cell # Num(0)

\* `if not keyword`, `if results`
Truthy(cell) == cell # Str(<<>>) /\ cell # Num(0)

EntryKeys == {Product_Name, Search_Keyword_Aldi, Size, Brand_Type}

NewHist ==
    [search |-> "none", results |-> <<>>, match |-> "none", best |-> 0,
     write |-> "none", nwrite |-> 0, wname |-> Blank, wprice |-> Zero]

prod == products_master[i]

Init ==
    /\ sheet \in Sheets
    /\ pc = "start"
    /\ products_master = <<>>
    /\ i = 0
    /\ results = <<>>
    /\ best = 0
    /\ processed_count = 0
    /\ updated_count = 0
    /\ log = <<>>
    /\ hist = <<>>
    /\ clock = 1
    /\ escaped = ""
    /\ Idle

\* products_master = manager.get_products_master().  The loop reads each
\* element as one record per row (prod['Product_Name']), that is as the
\* records of ws.get_all_records(); sheets_manager.py as it stands wraps them
\* in a DataFrame and defines no module-level `manager`, which the scraper
\* imports.  The records are what is modelled.
GetProducts ==
    /\ pc = "start"
    /\ \E api_ok \in BOOLEAN :
          IF api_ok
          THEN /\ products_master' = get_all_records(sheet)
               /\ pc' = "loop"
               /\ escaped' = escaped
          ELSE /\ products_master' = products_master
               /\ pc' = "raised"
               /\ escaped' = "catalog"
    /\ UNCHANGED <<sheet, i, results, best, processed_count, updated_count, log, hist, clock>>
    /\ UNCHANGED others

\* the head of the loop body: the four field reads and the keyword test
NextEntry ==
    /\ pc = "loop"
    /\ i < Len(products_master)
    /\ i' = i + 1
    /\ results' = <<>>
    /\ best' = 0
    /\ LET p == products_master[i + 1]
       IN IF ~(EntryKeys \subseteq DOMAIN p)
          THEN /\ pc' = "raised"
               /\ escaped' = "KeyError"
               /\ UNCHANGED <<log, hist>>
          ELSE /\ escaped' = escaped
               /\ hist' = Append(hist, NewHist)
               /\ IF ~Truthy(p[Search_Keyword_Aldi])
                  THEN /\ log' = Append(log, <<i + 1, "skip_empty_keyword">>)
                       /\ pc' = "loop"
                  ELSE /\ log' = log
                       /\ pc' = "search"
    /\ UNCHANGED <<sheet, products_master, processed_count, updated_count, clock>>
    /\ UNCHANGED others

\* results = scrape_aldi_search(page, keyword) and `if results`, for the page
\* the search meets
SearchPage(page) ==
    /\ pc = "search"
    /\ LET r == scrape_aldi_search(page)
       IN /\ hist' = [hist EXCEPT ![i].search = page.status, ![i].results = r.products]
          /\ results' = r.products
          /\ IF r.raised
             THEN /\ log' = Append(log, <<i, "error">>)
                  /\ processed_count' = processed_count + 1
                  /\ pc' = "loop"
             ELSE IF r.products # <<>>
             THEN /\ pc' = "match"
                  /\ UNCHANGED <<log, processed_count>>
             ELSE /\ log' = Append(log, <<i, "no_results">>)
                  /\ processed_count' = processed_count + 1
                  /\ pc' = "loop"
    /\ UNCHANGED <<sheet, products_master, i, best, updated_count, clock, escaped>>
    /\ UNCHANGED <<pass, first, call>>

\* a search of the live site: any page
Search ==
    /\ \E page \in Pages : SearchPage(page)
    /\ web' = web

\* best = find_best_aldi_match(results, target_size, brand_type) and `if best`
Match ==
    /\ pc = "match"
    /\ LET r == find_best_aldi_match(results, prod[Size], prod[Brand_Type])
       IN IF r.raised
          THEN /\ hist' = [hist EXCEPT ![i].match = "raised"]
               /\ best' = best
               /\ log' = Append(log, <<i, "error">>)
               /\ processed_count' = processed_count + 1
               /\ pc' = "loop"
          ELSE IF r.best # 0
          THEN /\ hist' = [hist EXCEPT ![i].match = "yes", ![i].best = r.best]
               /\ best' = r.best
               /\ pc' = "write"
               /\ UNCHANGED <<log, processed_count>>
          ELSE /\ hist' = [hist EXCEPT ![i].match = "no"]
               /\ best' = 0
               /\ log' = Append(log, <<i, "no_match">>)
               /\ processed_count' = processed_count + 1
               /\ pc' = "loop"
    /\ UNCHANGED <<sheet, products_master, i, results, updated_count, clock, escaped>>
    /\ UNCHANGED others

\* the write without the try/except around it: a raise leaves the pass
Write_uncaught ==
    /\ pc = "write"
    /\ \E api_ok \in BOOLEAN :
          LET u == update_price(sheet, CellText(prod[Product_Name]), S_Aldi,
                                results[best].price, clock, api_ok)
          IN /\ hist' = [hist EXCEPT ![i].write = IF u.raised THEN "raised" ELSE "ok",
                                     ![i].nwrite = @ + 1,
                                     ![i].wname = prod[Product_Name],
                                     ![i].wprice = results[best].price]
             /\ sheet' = u.sheet
             /\ IF u.raised
                THEN /\ pc' = "raised"
                     /\ escaped' = u.error
                     /\ UNCHANGED <<log, updated_count, clock, processed_count>>
                ELSE /\ log' = Append(log, <<i, "updated">>)
                     /\ updated_count' = updated_count + 1
                     /\ clock' = clock + 1
                     /\ processed_count' = processed_count + 1
                     /\ pc' = "loop"
                     /\ escaped' = escaped
    /\ UNCHANGED <<products_master, i, results, best>>
    /\ UNCHANGED others

\* the write put in a retry loop: a write that raised is called again
Write_retry ==
    /\ pc = "write"
    /\ \E api_ok \in BOOLEAN :
          LET u == update_price(sheet, CellText(prod[Product_Name]), S_Aldi,
                                results[best].price, clock, api_ok)
          IN /\ hist' = [hist EXCEPT ![i].write = IF u.raised THEN "raised" ELSE "ok",
                                     ![i].nwrite = @ + 1,
                                     ![i].wname = prod[Product_Name],
                                     ![i].wprice = results[best].price]
             /\ sheet' = u.sheet
             /\ IF u.raised
                THEN /\ pc' = "write"
                     /\ UNCHANGED <<log, updated_count, clock, processed_count>>
                ELSE /\ log' = Append(log, <<i, "updated">>)
                     /\ updated_count' = updated_count + 1
                     /\ clock' = clock + 1
                     /\ processed_count' = processed_count + 1
                     /\ pc' = "loop"
    /\ UNCHANGED <<products_master, i, results, best, escaped>>
    /\ UNCHANGED others

\* manager.update_price(product_name, 'Aldi', best['price']) and the except
\* clause, for a Google Sheets API that answers (api_ok) or fails
WriteWith(api_ok) ==
    /\ pc = "write"
    /\ LET u == update_price(sheet, CellText(prod[Product_Name]), S_Aldi,
                             results[best].price, clock, api_ok)
       IN /\ hist' = [hist EXCEPT ![i].write = IF u.raised THEN "raised" ELSE "ok",
                                  ![i].nwrite = @ + 1,
                                  ![i].wname = prod[Product_Name],
                                  ![i].wprice = results[best].price]
          /\ sheet' = u.sheet
          /\ IF u.raised
             THEN /\ log' = Append(log, <<i, "error">>)
                  /\ UNCHANGED <<updated_count, clock>>
             ELSE /\ log' = Append(log, <<i, "updated">>)
                  /\ updated_count' = updated_count + 1
                  /\ clock' = clock + 1
    /\ processed_count' = processed_count + 1
    /\ pc' = "loop"
    /\ UNCHANGED <<products_master, i, results, best, escaped>>
    /\ UNCHANGED others

Write == \E api_ok \in BOOLEAN : WriteWith(api_ok)

\* the end of the loop: browser.close() and return updated_count
Finish ==
    /\ pc = "loop"
    /\ i = Len(products_master)
    /\ pc' = "done"
    /\ UNCHANGED <<sheet, products_master, i, results, best, processed_count,
                   updated_count, log, hist, clock, escaped>>
    /\ UNCHANGED others

Next ==
    \/ GetProducts
    \/ NextEntry
    \/ Search
    \/ Match
    \/ Write
    \/ Finish

Spec == Init /\ [][Next]_vars

\* ---- two passes over the same catalog --------------------------------------

\* the pages of the repeated searches: one that fails to load, one with two
\* prices, one with a missing price, one with a price float() rejects
PagesTwice ==
    { Page("load_error", <<>>),
      Page("ok", <<TileFarmdale, TileBrandX>>),
      Page("ok", <<TileBerg, TileFarmdale>>),
      Page("ok", <<TileBadPrice>>) }

\* a site that answers each keyword the way it answered it before
SearchSame ==
    \E page \in PagesTwice :
        /\ pc = "search"
        /\ \A w \in web : w[1] = prod[Search_Keyword_Aldi] => w[2] = page
        /\ SearchPage(page)
        /\ web' = web \cup {<<prod[Search_Keyword_Aldi], page>>}

\* a Google Sheets API that answers every call of the write
WriteOk == WriteWith(TRUE)

\* run_aldi_scraper() called again after it returned: the locals start anew,
\* the sheet and the time are what the first pass left
Restart ==
    /\ pc = "done"
    /\ pass = 1
    /\ first' = [hist |-> hist, sheet |-> sheet, updated_count |-> updated_count]
    /\ pass' = 2
    /\ pc' = "start"
    /\ products_master' = <<>>
    /\ i' = 0
    /\ results' = <<>>
    /\ best' = 0
    /\ processed_count' = 0
    /\ updated_count' = 0
    /\ log' = <<>>
    /\ hist' = <<>>
    /\ UNCHANGED <<sheet, clock, escaped, web, call>>

NextTwice ==
    \/ GetProducts
    \/ NextEntry
    \/ SearchSame
    \/ Match
    \/ WriteOk
    \/ Finish
    \/ Restart

SpecTwice == Init /\ [][NextTwice]_vars

\* ---- a pass that is interrupted ---------------------------------------------

\* run_aldi_scraper has no cancellation test: the one signal that ends a pass
\* early is KeyboardInterrupt (Ctrl-C, SIGINT), raised at whatever statement
\* is running.  It is no Exception, so the except clause of the loop body
\* lets it through, and the lines after the loop are not reached.
Interrupt ==
    /\ pc \in {"start", "loop", "search", "match", "write"}
    /\ pc' = "interrupted"
    /\ escaped' = "KeyboardInterrupt"
    /\ UNCHANGED <<sheet, products_master, i, results, best, processed_count,
                   updated_count, log, hist, clock>>
    /\ UNCHANGED others

NextCancel ==
    \/ Next
    \/ Interrupt

SpecCancel == Init /\ [][NextCancel]_vars

\* ---- SheetsManager.update_price called on its own ---------------------------

S_Milk == <<"M","i","l","k">>

S_milk == <<"m","i","l","k">>

S_Nuts == <<"N","u","t","s">>

P320 == float(<<"3",".","2","0">>)

\* rows of the sheet: two whose names differ in case only, and one that
\* already holds an Aldi price
DirectRows ==
    { MkRow(S_Milk, S_milk, Num(2), S_HomeBrand),
      MkRow(S_milk, S_milk, Num(1), S_Specific),
      [MkRow(S_Nuts, <<"n","u","t","s">>, Num(500), S_Specific)
          EXCEPT ![Aldi_Price] = Price(P320)] }

DirectCatalogs ==
    {ks \in UNION {[1..n -> DirectRows] : n \in 0..MaxCatalog} :
        \A a, b \in DOMAIN ks : a # b => ks[a] # ks[b]}

\* headers without the Product_Name and without the Last_Updated column
NoNameHeader ==
    <<Category, Size, Woolworths_Price, Coles_Price, Aldi_Price, Last_Updated>>

NoStampHeader ==
    <<Product_Name, Size, Woolworths_Price, Coles_Price, Aldi_Price>>

\* a header typed loosely, and the columns it stands for
LooseLabels == <<Product_Name, Aldi_Price, Coles_Price, Woolworths_Price, Last_Updated>>

LooseHeader ==
    << <<" ","p","r","o","d","u","c","t","_","n","a","m","e"," ">>,
       <<"A","L","D","I","_","P","R","I","C","E">>,
       <<"c","o","l","e","s","_","p","r","i","c","e">>,
       <<"W","o","o","l","w","o","r","t","h","s","_","P","r","i","c","e"," ">>,
       <<"l","a","s","t","_","u","p","d","a","t","e","d">> >>

\* the sheets update_price may meet; the first has an empty row 1
DirectSheets ==
    {[header |-> <<>>, rows |-> <<>>]}
      \cup {MkSheet(h, ks) : h \in {FullHeader, NoAldiHeader, NoNameHeader, NoStampHeader},
                             ks \in DirectCatalogs}
      \cup {[header |-> LooseHeader, rows |-> MkSheet(LooseLabels, ks).rows] :
                ks \in DirectCatalogs}

\* arguments of the call: names of rows as typed and otherwise, a name of no
\* row; the three stores as typed and otherwise, another store; two prices
NameArgs == {S_Milk, S_milk, <<" ","N","U","T","S"," ">>, <<"C","o","l","a">>}

StoreArgs ==
    {S_Aldi, <<" ","C","O","L","E","S"," ">>, <<"w","o","o","l","w","o","r","t","h","s">>,
     <<"i","g","a">>}

PriceArgs == {P320, Zero}

InitSheet ==
    /\ sheet \in DirectSheets
    /\ pc = "sheet"
    /\ products_master = <<>>
    /\ i = 0
    /\ results = <<>>
    /\ best = 0
    /\ processed_count = 0
    /\ updated_count = 0
    /\ log = <<>>
    /\ hist = <<>>
    /\ clock = 1
    /\ escaped = ""
    /\ Idle

\* manager.update_price(product_name, store_name, new_price)
UpdatePriceCall ==
    /\ pc = "sheet"
    /\ \E name \in NameArgs, store \in StoreArgs, price \in PriceArgs, api_ok \in BOOLEAN :
          LET u == update_price(sheet, name, store, price, clock, api_ok)
          IN /\ sheet' = u.sheet
             /\ call' = [name |-> name, store |-> store, price |-> price, now |-> clock,
                         raised |-> u.raised, error |-> u.error, before |-> sheet]
    /\ pc' = "sheet_done"
    /\ clock' = clock + 1
    /\ UNCHANGED <<products_master, i, results, best, processed_count, updated_count,
                   log, hist, escaped, web, pass, first>>

SpecSheet == InitSheet /\ [][UpdatePriceCall]_vars

(***************************************************************************)
(* find_best_aldi_match on its own: every list of up to MaxResults         *)
(* candidates, with the scraper standing at the call of the matcher        *)
(***************************************************************************)
\* the longest candidate list
MaxResults == 3

Product(title, price) == [title |-> title, price |-> price]

\* candidates: home-brand titles of sizes 2, 2 (a multi-pack) and 250 and one
\* without a number; other titles of sizes 1 and 1.5
Candidates ==
    { Product(<<"F","a","r","m","d","a","l","e"," ","M","i","l","k"," ","2","L">>,
              [n |-> 32, d |-> 10]),
      Product(<<"B","r","a","n","d"," ","X"," ","M","i","l","k"," ","1","L">>,
              [n |-> 21, d |-> 10]),
      Product(<<"2"," ","x"," ","5","0","0","g"," ","B","E","R","G"," ","n","u","t","s">>,
              Zero),
      Product(<<"C","h","o","c","e","u","r"," ","B","a","r">>, [n |-> 1, d |-> 1]),
      Product(<<"1",".","5","L"," ","C","o","l","a">>, [n |-> 15, d |-> 10]),
      Product(<<"2","5","0","g"," ","C","h","o","c","e","u","r"," ","B","a","r">>,
              [n |-> 3, d |-> 1]) }

CandidateLists == UNION {[1..n -> Candidates] : n \in 0..MaxResults}

TargetSizes == {Num(2), Num(300), Blank}

BrandTypes == {S_HomeBrand, S_Specific, <<>>}

InitMatch ==
    /\ \E size \in TargetSizes, brand \in BrandTypes :
          sheet = MkSheet(FullHeader,
                          <<MkRow(<<"M","i","l","k">>, <<"m","i","l","k">>, size, brand)>>)
    /\ pc = "match"
    /\ products_master = get_all_records(sheet)
    /\ i = 1
    /\ results \in CandidateLists
    /\ best = 0
    /\ processed_count = 0
    /\ updated_count = 0
    /\ log = <<>>
    /\ hist = <<[NewHist EXCEPT !.search = "ok", !.results = results]>>
    /\ clock = 1
    /\ escaped = ""
    /\ Idle

SpecMatch == InitMatch /\ [][Match]_vars

(***************************************************************************)
(* Properties                                                              *)
(***************************************************************************)
\* a candidate's size: the first numeric token of its title
Extractable(c) == first_size_token(lower(c.title)) # <<>>

SizeOf(c) == float(first_size_token(lower(c.title)))

NamesHomeBrand(c) ==
    \E k \in 1..Len(ALDI_HOME_BRANDS) : Contains(lower(ALDI_HOME_BRANDS[k]), lower(c.title))

PassesBrandFilter(c, brand_type) == brand_type = Str(S_HomeBrand) => NamesHomeBrand(c)

Survives(c, brand_type) == Extractable(c) /\ PassesBrandFilter(c, brand_type)

Numeric(cell) == cell.t = "num"

\* abs(size - target_size) of a candidate
DiffOf(c, target_size) == AbsDiff(SizeOf(c), target_size.v)

\* entry e has left the loop body
Finished(e) == e < i \/ pc \in {"loop", "done", "raised"}

\* the matcher has been called for entry e and has returned or raised
Matched(e) == hist[e].match # "none"

\* C1: whatever find_best_aldi_match returns is an element of the candidate
\* list with an extractable size; under 'Home Brand' its title names a home
\* brand, case-insensitively; under 'Specific' no brand filter is applied:
\* some candidate is returned as soon as one has a size, and none with a size
\* is closer to the target than the one returned.
C1_ReturnedPassesFilter ==
    \A e \in DOMAIN hist :
        LET rs    == hist[e].results
            b     == hist[e].best
            brand == products_master[e][Brand_Type]
            size  == products_master[e][Size]
        IN /\ hist[e].match = "yes" =>
                /\ b \in 1..Len(rs)
                /\ Extractable(rs[b])
                /\ brand = Str(S_HomeBrand) => NamesHomeBrand(rs[b])
           /\ (Matched(e) /\ brand = Str(S_Specific) /\ Numeric(size)
                 /\ \E k \in 1..Len(rs) : Extractable(rs[k])) =>
                /\ hist[e].match = "yes"
                /\ \A k \in 1..Len(rs) :
                      Extractable(rs[k]) => ~Less(DiffOf(rs[k], size), DiffOf(rs[b], size))

\* C1 witness: under 'Home Brand' a home-brand candidate was returned although
\* another candidate, of no home brand, is closer to the target
C1_Witness ==
    \E e \in DOMAIN hist :
        LET rs   == hist[e].results
            b    == hist[e].best
            size == products_master[e][Size]
        IN /\ hist[e].match = "yes"
           /\ products_master[e][Brand_Type] = Str(S_HomeBrand)
           /\ \E k \in 1..Len(rs) :
                 /\ Extractable(rs[k])
                 /\ ~NamesHomeBrand(rs[k])
                 /\ Less(DiffOf(rs[k], size), DiffOf(rs[b], size))

\* C2: when the target size is a number and some candidate has a size and
\* passes the brand filter, the matcher returns a surviving candidate of
\* minimal abs(size - target_size), the earliest one among those of minimal
\* difference; the size is the first numeric token ("2 x 500g" has size 2).
C2_ReturnsClosestFirst ==
    /\ first_size_token(<<"2"," ","x"," ","5","0","0","g">>) = <<"2">>
    /\ \A e \in DOMAIN hist :
        LET rs    == hist[e].results
            b     == hist[e].best
            brand == products_master[e][Brand_Type]
            size  == products_master[e][Size]
        IN (Matched(e) /\ Numeric(size) /\ \E k \in 1..Len(rs) : Survives(rs[k], brand)) =>
              /\ hist[e].match = "yes"
              /\ b \in 1..Len(rs)
              /\ Survives(rs[b], brand)
              /\ \A k \in 1..Len(rs) :
                    Survives(rs[k], brand) =>
                        /\ ~Less(DiffOf(rs[k], size), DiffOf(rs[b], size))
                        /\ ~Less(DiffOf(rs[b], size), DiffOf(rs[k], size)) => b <= k

\* C2 witness: the candidate returned has a later rival of the same difference
\* and a rival of a larger one
C2_Witness ==
    \E e \in DOMAIN hist :
        LET rs    == hist[e].results
            b     == hist[e].best
            brand == products_master[e][Brand_Type]
            size  == products_master[e][Size]
        IN /\ hist[e].match = "yes"
           /\ \E k \in 1..Len(rs) :
                 /\ k > b
                 /\ rs[k] # rs[b]
                 /\ Survives(rs[k], brand)
                 /\ ~Less(DiffOf(rs[b], size), DiffOf(rs[k], size))
           /\ \E k \in 1..Len(rs) :
                 /\ k < b
                 /\ Survives(rs[k], brand)
                 /\ Less(DiffOf(rs[b], size), DiffOf(rs[k], size))

\* C3: the matcher returns None for the empty list and for every list in
\* which no candidate both has a size token and passes the brand filter.
C3_NoSurvivorNoMatch ==
    \A e \in DOMAIN hist :
        LET rs    == hist[e].results
            brand == products_master[e][Brand_Type]
        IN (Matched(e) /\ \A k \in 1..Len(rs) : ~Survives(rs[k], brand)) =>
              hist[e].match = "no"

\* C3 witness: None was returned for a list whose candidates with a size all
\* fail the brand filter
C3_Witness ==
    \E e \in DOMAIN hist :
        LET rs == hist[e].results
        IN /\ hist[e].match = "no"
           /\ \E k \in 1..Len(rs) : Extractable(rs[k])
           /\ \E k \in 1..Len(rs) : ~Extractable(rs[k])

\* C3 witness for the empty list is the state below
C3_EmptyReached == \E e \in DOMAIN hist : hist[e].match = "no" /\ hist[e].results = <<>>

Range(f) == {f[k] : k \in DOMAIN f}

\* C4: for every entry that has left the loop body, the price write was
\* called if and only if the entry's keyword is not empty, its search gave
\* a non-empty result list and the matcher returns a match for these results
\* and the entry's own size and brand type; the call carried the entry's
\* product name and the price of that match.  No other entry has a write call.
C4_WriteIffMatch ==
    \A e \in DOMAIN hist :
        Finished(e) =>
            LET p == products_master[e]
                m == find_best_aldi_match(hist[e].results, p[Size], p[Brand_Type])
            IN /\ hist[e].write # "none" <=>
                    /\ p[Search_Keyword_Aldi] # Blank
                    /\ hist[e].search # "none"
                    /\ hist[e].results # <<>>
                    /\ ~m.raised
                    /\ m.best # 0
               /\ hist[e].write # "none" =>
                    /\ hist[e].wname = p[Product_Name]
                    /\ hist[e].wprice = hist[e].results[m.best].price

\* C4 witness: a finished pass that wrote the price of one entry and made no
\* write call for another, whose search results held no match
C4_Witness ==
    /\ pc = "done"
    /\ \E e \in DOMAIN hist : hist[e].write = "ok"
    /\ \E e \in DOMAIN hist : hist[e].write = "none" /\ hist[e].match = "no"

\* C5: when the pass ends, the processed count equals the number of catalog
\* entries, whichever path each entry took.
C5_ProcessedAll == pc = "done" => processed_count = Len(products_master)

\* some price write of the pass has raised
WriteRaised == \E e \in DOMAIN hist : hist[e].write = "raised"

\* every entry after the first one whose write raised has been started,
\* searched when it has a keyword, matched when its search gave results, and
\* written when the matcher returned a match
LaterEntriesHandled ==
    /\ Len(hist) = Len(products_master)
    /\ \A e, e2 \in DOMAIN hist :
          (hist[e].write = "raised" /\ e < e2) =>
              /\ products_master[e2][Search_Keyword_Aldi] # Blank =>
                      hist[e2].search # "none"
              /\ hist[e2].results # <<>> => hist[e2].match # "none"
              /\ hist[e2].match = "yes" => hist[e2].write # "none"

\* C6: a price write that raises does not end the pass: the exception never
\* leaves run_aldi_scraper, the loop goes on over the entries that are left,
\* and when the pass is done every later entry has been searched, matched and,
\* on a match, written.
C6_WriteFailureIsolated ==
    WriteRaised =>
        /\ pc # "raised"
        /\ pc = "loop" => i <= Len(products_master)
        /\ pc # "done" => Len(hist) <= Len(products_master)
        /\ pc = "done" => LaterEntriesHandled

\* C6 witness: a finished pass in which the write of one entry raised and the
\* write of a later entry succeeded
C6_Witness ==
    /\ pc = "done"
    /\ \E e, e2 \in DOMAIN hist :
          e < e2 /\ hist[e].write = "raised" /\ hist[e2].write = "ok"

\* C7: an entry whose search failed at the page load is recorded as failed
\* (the error outcome), not as an entry without search results.
C7_FailedSearchDistinct ==
    \A e \in DOMAIN hist :
        (Finished(e) /\ hist[e].search = "load_error") =>
            /\ <<e, "error">> \in Range(log)
            /\ <<e, "no_results">> \notin Range(log)

\* C8: the only exception that leaves run_aldi_scraper is a failure to obtain
\* the catalog.
C8_OnlyCatalogEscapes == pc = "raised" => escaped = "catalog"

\* C9: for an entry whose target size is not a number the matcher returns
\* None instead of raising, and no price write is called for the entry.
C9_InvalidSizeNoMatch ==
    \A e \in DOMAIN hist :
        (Matched(e) /\ ~Numeric(products_master[e][Size])) =>
            /\ hist[e].match = "no"
            /\ hist[e].write = "none"

\* C10: no candidate with price 0 is among the search results given to the
\* matcher, and no price write carries the price 0.
C10_NoZeroPrice ==
    \A e \in DOMAIN hist :
        /\ \A k \in 1..Len(hist[e].results) : hist[e].results[k].price # Zero
        /\ hist[e].write # "none" => hist[e].wprice # Zero

\* C11: in one pass the price write is called at most once for each catalog
\* entry, and at most once for each product name when the names of the catalog
\* are pairwise different; a write that raised is not called again.
C11_AtMostOneWrite ==
    /\ \A e \in DOMAIN hist :
          /\ hist[e].nwrite <= 1
          /\ hist[e].write = "raised" => hist[e].nwrite = 1
    /\ (\A a, b \in DOMAIN products_master :
            a # b => products_master[a][Product_Name] # products_master[b][Product_Name]) =>
          \A a, b \in DOMAIN hist :
              (a # b /\ hist[a].nwrite > 0 /\ hist[b].nwrite > 0) =>
                  hist[a].wname # hist[b].wname

\* C11 witness: a finished pass in which the write of one entry raised, was
\* called once, and another entry was written
C11_Witness ==
    /\ pc = "done"
    /\ \E e, e2 \in DOMAIN hist :
          /\ hist[e].write = "raised"
          /\ hist[e].nwrite = 1
          /\ hist[e2].write = "ok"

\* C12: for an entry with an empty search keyword no search call and no
\* write call is made, and the pass is back at the head of the loop (or done).
C12_EmptyKeywordSkipped ==
    \A e \in DOMAIN hist :
        products_master[e][Search_Keyword_Aldi] = Blank =>
            /\ hist[e].search = "none"
            /\ hist[e].match = "none"
            /\ hist[e].nwrite = 0
            /\ e = i => pc \in {"loop", "done"}
            /\ <<e, "skip_empty_keyword">> \in Range(log)

\* C12 witness: a finished pass that skipped an entry with an empty keyword
\* and searched the entry after it
C12_Witness ==
    /\ pc = "done"
    /\ \E e, e2 \in DOMAIN hist :
          /\ e < e2
          /\ products_master[e][Search_Keyword_Aldi] = Blank
          /\ hist[e2].search # "none"

\* the sheet without its Last_Updated column: the prices and all other cells
PriceState(sh) ==
    [header |-> sh.header,
     rows   |-> [k \in 1..Len(sh.rows) |->
                    [c \in 1..Len(sh.header) |->
                        IF c = header_col(sh.header, Last_Updated)
                        THEN Blank ELSE sh.rows[k][c]]]]

\* C13: after a second pass over the same catalog, with a site that answers
\* each keyword as in the first pass and writes that the API never refuses,
\* every entry has a write in the second pass exactly if it had one in the
\* first, with the same price, the same number of entries is updated, and
\* the sheet holds the same prices as after the first pass.
C13_SecondPassSame ==
    (pass = 2 /\ pc = "done") =>
        /\ Len(hist) = Len(first.hist)
        /\ \A e \in DOMAIN hist :
              /\ hist[e].write = first.hist[e].write
              /\ hist[e].write # "none" => hist[e].wprice = first.hist[e].wprice
        /\ updated_count = first.updated_count
        /\ PriceState(sheet) = PriceState(first.sheet)

\* C13 witness: a second pass that is done and wrote, like the first, the
\* prices of two entries: the sheets differ in their times only
C13_Witness ==
    /\ pass = 2
    /\ pc = "done"
    /\ updated_count = 2
    /\ first.updated_count = 2
    /\ sheet # first.sheet
    /\ \E e \in DOMAIN hist : hist[e].wprice # Zero

\* C14: a pass that was ended early by the signal leaves no entry without an
\* outcome: every entry that was started has completed (its outcome is
\* printed) or is reported as cancelled, and no entry is started afterwards.
C14_CancelLeavesOutcome ==
    escaped = "KeyboardInterrupt" =>
        \A e \in DOMAIN hist :
            \E o \in {"skip_empty_keyword", "no_results", "no_match", "updated",
                       "error", "cancelled"} : <<e, o>> \in Range(log)

\* the columns whose header is the given name, as _norm reads it
ColsNamed(h, name) == {c \in 1..Len(h) : norm(h[c]) = norm(name)}

\* the cells whose value the call changed
ChangedCells ==
    {rc \in (1..Len(sheet.rows)) \X (1..Len(sheet.header)) :
        sheet.rows[rc[1]][rc[2]] # call.before.rows[rc[1]][rc[2]]}

\* C15: after a successful update_price(product_name, store_name, new_price)
\* one row whose name matches holds the new price in the column of the given
\* store and the time of the call in Last_Updated, both at once, and every
\* other cell, the header and the number of rows are as before the call.
C15_TwoCellsOneRow ==
    (pc = "sheet_done" /\ ~call.raised) =>
        LET b == call.before
            h == b.header
        IN /\ sheet.header = h
           /\ Len(sheet.rows) = Len(b.rows)
           /\ \E r \in 1..Len(b.rows) :
              \E cp \in ColsNamed(h, store_to_colname[norm(call.store)]) :
              \E cl \in ColsNamed(h, Last_Updated) :
              \E cn \in ColsNamed(h, Product_Name) :
                 /\ cp # cl
                 /\ norm(CellText(b.rows[r][cn])) = norm(call.name)
                 /\ sheet.rows[r][cp] = Price(call.price)
                 /\ sheet.rows[r][cl] = Time(call.now)
                 /\ \A r2 \in 1..Len(b.rows) : \A c2 \in 1..Len(h) :
                       (<<r2, c2>> # <<r, cp>> /\ <<r2, c2>> # <<r, cl>>) =>
                           sheet.rows[r2][c2] = b.rows[r2][c2]

\* C15 witness: a successful call for Coles on a sheet of two rows or more
\* changed two cells
C15_Witness ==
    /\ pc = "sheet_done"
    /\ ~call.raised
    /\ norm(call.store) = <<"c","o","l","e","s">>
    /\ Len(sheet.rows) >= 2
    /\ Cardinality(ChangedCells) = 2

\* C16: update_price raises and the sheet is as before the call whenever the
\* header has no Product_Name column, no Last_Updated column or no price
\* column of the store, the store is none of woolworths, coles, aldi, or no
\* row has the product name (headers, stores and names as _norm reads them).
C16_RaisesUnchanged ==
    pc = "sheet_done" =>
        LET b   == call.before
            h   == b.header
            key == norm(call.store)
            bad == \/ ColsNamed(h, Product_Name) = {}
                   \/ ColsNamed(h, Last_Updated) = {}
                   \/ key \notin {<<"w","o","o","l","w","o","r","t","h","s">>,
                                   <<"c","o","l","e","s">>, <<"a","l","d","i">>}
                   \/ ColsNamed(h, store_to_colname[key]) = {}
                   \/ \A r \in 1..Len(b.rows) : \A cn \in ColsNamed(h, Product_Name) :
                         norm(CellText(b.rows[r][cn])) # norm(call.name)
        IN bad => (call.raised /\ sheet = b)

\* C16 witness: a call that the API answered raised ValueError for a product
\* name of no row, on a sheet that has rows and every column
C16_Witness ==
    /\ pc = "sheet_done"
    /\ call.raised
    /\ call.error = "ValueError"
    /\ call.before.header = FullHeader
    /\ call.before.rows # <<>>
    /\ norm(call.store) = <<"a","l","d","i">>
    /\ call.name = <<"C","o","l","a">>
    /\ sheet = call.before

\* C17: on a sheet whose product names are pairwise different strings, a
\* successful update_price for the name of one of its rows changes cells of
\* the row with exactly that name and of no other row.
C17_WriteHitsOwnRow ==
    (pc = "sheet_done" /\ ~call.raised) =>
        LET b  == call.before
            cn == header_col(b.header, Product_Name)
        IN ( /\ \A r1, r2 \in 1..Len(b.rows) :
                   r1 # r2 => b.rows[r1][cn] # b.rows[r2][cn]
             /\ \E r \in 1..Len(b.rows) : CellText(b.rows[r][cn]) = call.name ) =>
               \A rc \in ChangedCells : CellText(b.rows[rc[1]][cn]) = call.name

====
